---- MODULE Spec2Model ----
(***************************************************************************)
(* Model of upload_geojson_to_dynamodb.py: the batch writer                *)
(* (write_batch_to_dynamo / process_batch), the streaming importer         *)
(* (process_geojson), the hierarchical sort key (format_hierarchical_key)  *)
(* and the coordinate decimation (simplify_coordinates).                   *)
(***************************************************************************)
EXTENDS Integers, Sequences, FiniteSets, TLC

\* ------------------------------------------------------------ constants
BATCH_SIZE == 25
MAX_RETRIES == 10
PoolCap == 10
\* elif len(coordinates) > 100
SimplifyThreshold == 100

\* ------------------------------------------------------------ bounds
\* most items one direct call of the writer is given (two groups at 26)
MaxItems == 26
\* most items the store accepts in one partial-failure response
MaxAccepted == 1
\* most features in the input stream (two full batches and a trailing one)
MaxFeatures == 51
\* most features in a stream that holds a feature unlike the others
MaxSpecialLen == 3
\* largest id a feature supplies itself
MaxSuppliedId == 1
\* longest island or district name
MaxNameLen == 2
\* most points of a ring
MaxRing == 204
\* longest geohash a feature supplies itself
MaxGeohashLen == 8
\* largest multiple of 10000 acres among the areas
MaxPriorityBand == 11
\* most keys in the properties of a feature
MaxPropKeys == 2
\* most items of the group of a worker that is followed to its end
MaxWorkerItems == 2

VARIABLES
    \* write_batch_to_dynamo
    batches,        \* the groups of the current call
    w,              \* one process_batch worker per group
    store,          \* the items the store has accepted
    wpc,            \* "idle" | "running" | "returned"
    success,        \* the value write_batch_to_dynamo returned
    \* process_geojson
    features,       \* the features.item stream of the input file
    test_mode,
    test_limit,
    ipc,            \* "counting" | "processing" | "writing" | "draining" |
                    \* "flushing" | "done" | "failed"
    feature_index,  \* features taken from the stream in the second pass
    batch,
    total_processed,
    total_features,
    ret,            \* what process_geojson returned: "none" | "True" | "False"
    calls,          \* history: calls of write_batch_to_dynamo made so far
    handed,         \* history: records handed to write_batch_to_dynamo so far
    writer_failed,  \* history: <<>>, or what the importer and the store held when
                    \* a call of write_batch_to_dynamo returned False
    \* the pure functions
    fnIn,           \* the arguments of the call
    fnOut           \* the value returned, <<>> before the call

wvars == <<batches, w, store, wpc, success>>
ivars == <<features, test_mode, test_limit, ipc, feature_index, batch,
           total_processed, total_features, ret, calls, handed>>
pvars == <<fnIn, fnOut>>
vars == <<wvars, ivars, writer_failed, pvars>>

Min(a, b) == IF a < b THEN a ELSE b

Range(s) == {s[i] : i \in 1..Len(s)}

Max(a, b) == IF a > b THEN a ELSE b

\* ------------------------------------------------------------ JSON values
\* A value is absent, JSON null, a string (the sequence of its characters)
\* or a number.
Absent == [k |-> "absent"]
Null == [k |-> "null"]
Str(s) == [k |-> "str", s |-> s]
Num(n) == [k |-> "num", n |-> n]
Unknown == <<"U", "n", "k", "n", "o", "w", "n">>

\* dict.get(key, default)
Get(v, default) == IF v = Absent THEN default ELSE v

\* Python's `x or default` on None and on strings
OrElse(v, default) == IF v = Null \/ v = Str(<<>>) THEN default ELSE v

RECURSIVE LStrip(_)
LStrip(s) == IF s # <<>> /\ Head(s) = " " THEN LStrip(Tail(s)) ELSE s

RECURSIVE RStrip(_)
RStrip(s) ==
    IF s # <<>> /\ s[Len(s)] = " " THEN RStrip(SubSeq(s, 1, Len(s) - 1)) ELSE s

\* str.strip()
Strip(s) == LStrip(RStrip(s))

\* mokupuni = (mokupuni or "Unknown").strip(), the same for moku;
\* f"MOKUPUNI#{mokupuni}#MOKU#{moku}"
format_hierarchical_key(mokupuni, moku) ==
    <<"MOKUPUNI#">> \o Strip(OrElse(mokupuni, Str(Unknown)).s)
        \o <<"#MOKU#">> \o Strip(OrElse(moku, Str(Unknown)).s)

\* properties.get('mokupuni', 'Unknown'), properties.get('moku', 'Unknown') and
\* the call of format_hierarchical_key
hierarchy_sk(mokupuni, moku) ==
    format_hierarchical_key(Get(mokupuni, Str(Unknown)), Get(moku, Str(Unknown)))

\* ------------------------------------------------------------ decimation
\* A factor is written in thousandths: 10 is the factor 0.01.
\* step = max(1, int(1/factor))
Step(factor) == Max(1, 1000 \div factor)

\* the last point is not put back
Decimate_OpenEnd(c, step) ==
    <<c[1]>>
    \o [k \in 1..((Len(c) - 3) \div step + 1) |-> c[2 + (k - 1) * step]]

\* [coordinates[0]] + coordinates[1:-1:step] + [coordinates[-1]]
Decimate(c, step) ==
    <<c[1]>>
    \o [k \in 1..((Len(c) - 3) \div step + 1) |-> c[2 + (k - 1) * step]]
    \o <<c[Len(c)]>>

\* simplify_coordinates(coordinates, factor).  depth tells a coordinate pair
\* (0: all its elements are numbers) from a list of pairs (1: a ring) and a
\* list of rings (2); all(...) is also True of the empty list.
\* a list of exactly 100 elements counts as long
ManyPoints_AtLeast(c) == Len(c) >= SimplifyThreshold

\* elif len(coordinates) > 100
ManyPoints(c) == Len(c) > SimplifyThreshold

RECURSIVE simplify_coordinates(_, _, _)
simplify_coordinates(c, depth, factor) ==
    IF depth = 0 \/ c = <<>> THEN c
    ELSE IF ManyPoints(c) /\ Len(c) > 2
         THEN Decimate(c, Step(factor))
         ELSE [i \in 1..Len(c) |-> simplify_coordinates(c[i], depth - 1, factor)]

\* ------------------------------------------------------------ features
\* A feature of the stream.  properties is "map" or "null"; id and objectid are
\* Absent or a number; geometry is "Polygon" (a ring with vertices),
\* "EmptyRing" (a Polygon whose exterior ring is []), "Point" or "absent";
\* centroid_geopoint is "absent", "latlng" (a dict with lat and lng) or
\* "other" (a non-empty dict without them).
Feature(id, properties, objectid, mokupuni, moku, geometry, centroid) ==
    [id |-> id, properties |-> properties, objectid |-> objectid,
     mokupuni |-> mokupuni, moku |-> moku, geometry |-> geometry,
     centroid_geopoint |-> centroid]

\* properties.get(...) on None raises AttributeError
PropertiesRaise(f) == f.properties = "null"

\* extract_bounds_from_geometry: max([]) raises ValueError, which its
\* except (KeyError, IndexError, TypeError) does not catch
BoundsRaise(f) == f.geometry = "EmptyRing"

\* guess_centroid_from_geometry: lat_sum / len([]) raises ZeroDivisionError
CentroidRaise(f) == f.centroid_geopoint = "absent" /\ f.geometry = "EmptyRing"

\* if centroid: ... str(centroid['lat']) raises KeyError
CentroidItemRaise(f) == f.centroid_geopoint = "other"

\* feature.get('id', str(properties.get('objectid', f"{feature_index}")))
feature_id(f, index) ==
    IF f.id # Absent THEN f.id.n
    ELSE IF f.objectid # Absent THEN f.objectid.n
    ELSE index

\* The body of the loop of process_geojson up to batch.append(item): the item
\* built for feature f at feature_index, or the exception that leaves the loop.
BuildItem(f, index) ==
    IF PropertiesRaise(f) \/ BoundsRaise(f) \/ CentroidRaise(f)
       \/ CentroidItemRaise(f)
    THEN [raised |-> TRUE]
    ELSE [raised |-> FALSE,
          item |-> [pos |-> index,
                    AhupuaaPK |-> <<"AHUPUAA#", feature_id(f, index)>>,
                    HierarchySK |-> hierarchy_sk(f.mokupuni, f.moku)]]

\* a well-formed Polygon feature with no id of its own
Plain == Feature(Absent, "map", Absent, Str(<<"a">>), Str(<<"b">>), "Polygon", "absent")

\* An item of a direct call of write_batch_to_dynamo, which does not look into
\* the items it is given.
Item(pos) == [pos |-> pos]

\* ------------------------------------------------------------ batch writer
\* batches = [batch_items[i:i+BATCH_SIZE] for i in range(0, len, BATCH_SIZE)]
SplitBatches(items) ==
    [g \in 1..((Len(items) + BATCH_SIZE - 1) \div BATCH_SIZE) |->
        SubSeq(items, (g - 1) * BATCH_SIZE + 1, Min(g * BATCH_SIZE, Len(items)))]

\* ThreadPoolExecutor(max_workers=min(10, len(batches)))
max_workers == Min(PoolCap, Len(batches))

\* Delays are written in milliseconds.
\* time.sleep(min(2 ** retries * 0.1, 1.0))
PartialBase == 100
PartialCeiling == 1000

\* time.sleep(min(2 ** retries * 0.5, 5.0))
ErrorBase == 500
ErrorCeiling == 5000

\* the delay after a partial failure, retries being already counted up
PartialBackoff(retries) == Min((2 ^ retries) * PartialBase, PartialCeiling)

\* after an exception the worker sleeps as after a partial failure
ErrorBackoff_AsPartial(retries) == Min((2 ^ retries) * PartialBase, PartialCeiling)

\* the delay after an exception, retries being already counted up
ErrorBackoff(retries) == Min((2 ^ retries) * ErrorBase, ErrorCeiling)

\* A worker before it runs process_batch(batch).  attempts, partials and errors
\* (the requests made, and those answered with unprocessed items and with an
\* exception), last (the outcome of the last request) and slept (the delay
\* of the time.sleep that followed it, 0 when none did) are history.
Queued(group) ==
    [pc |-> "queued", batch |-> group, retries |-> 0, items_to_process |-> group,
     result |-> FALSE, attempts |-> 0, partials |-> 0, errors |-> 0,
     last |-> "none", slept |-> 0]

\* the state of a call right after the groups were submitted to the pool
CallWriter(items) ==
    /\ batches' = SplitBatches(items)
    /\ w' = [g \in 1..Len(SplitBatches(items)) |-> Queued(SplitBatches(items)[g])]
    /\ wpc' = "running"

\* request_items = {TABLE_NAME: items_to_process}
Request(wk) == wk.items_to_process

\* the loop gives up one retry early
LoopCond_OneShort(wk) == wk.items_to_process # <<>> /\ wk.retries < MAX_RETRIES - 1

\* the loop allows one retry more
LoopCond_OneMore(wk) == wk.items_to_process # <<>> /\ wk.retries <= MAX_RETRIES

\* while items_to_process and retries < max_retries
LoopCond(wk) ==
    wk.items_to_process # <<>> /\ wk.retries < MAX_RETRIES

\* the response carried no UnprocessedItems: return True
OnAccepted(wk) ==
    [wk EXCEPT !.pc = "done", !.result = TRUE,
               !.attempts = @ + 1, !.last = "ok", !.slept = 0]

\* the unprocessed subset is ignored: the same items are pending again
OnUnprocessed_KeepAll(wk, u) ==
    [wk EXCEPT !.retries = @ + 1,
               !.attempts = @ + 1, !.partials = @ + 1,
               !.last = "partial", !.slept = PartialBackoff(wk.retries + 1)]

\* the response carried the unprocessed subset u
OnUnprocessed(wk, u) ==
    [wk EXCEPT !.items_to_process = u, !.retries = @ + 1,
               !.attempts = @ + 1, !.partials = @ + 1,
               !.last = "partial", !.slept = PartialBackoff(wk.retries + 1)]

\* an exception does not count as a retry
OnException_NoCount(wk) ==
    [wk EXCEPT !.attempts = @ + 1, !.errors = @ + 1,
               !.last = "error", !.slept = ErrorBackoff(wk.retries + 1)]

\* after an exception the whole group is pending again
OnException_WholeGroup(wk) ==
    [wk EXCEPT !.items_to_process = wk.batch, !.retries = @ + 1,
               !.attempts = @ + 1, !.errors = @ + 1, !.last = "error",
               !.slept = ErrorBackoff(wk.retries + 1)]

\* batch_write_item raised: items_to_process is left as it is
OnException(wk) ==
    [wk EXCEPT !.retries = @ + 1,
               !.attempts = @ + 1, !.errors = @ + 1,
               !.last = "error", !.slept = ErrorBackoff(wk.retries + 1)]

\* return len(items_to_process) == 0
LoopExit(wk) ==
    [wk EXCEPT !.pc = "done", !.result = (Len(wk.items_to_process) = 0)]

\* The unprocessed subsets a partial-failure response may report for a request.
Unprocessed(items) ==
    {SubSeq(items, d + 1, Len(items)) : d \in 0..Min(MaxAccepted, Len(items) - 1)}

\* a pool worker takes the next group, in submission order
StartWorker(g) ==
    /\ wpc = "running"
    /\ w[g].pc = "queued"
    /\ \A h \in 1..(g - 1) : w[h].pc # "queued"
    /\ Cardinality({h \in DOMAIN w : w[h].pc = "run"}) < max_workers
    /\ w' = [w EXCEPT ![g] = [@ EXCEPT !.pc = "run", !.retries = 0,
                                       !.items_to_process = w[g].batch]]
    /\ UNCHANGED <<batches, store, wpc, success, ivars, writer_failed, pvars>>

AttemptAccepted(g) ==
    /\ wpc = "running" /\ w[g].pc = "run" /\ LoopCond(w[g])
    /\ store' = store \cup Range(Request(w[g]))
    /\ w' = [w EXCEPT ![g] = OnAccepted(w[g])]
    /\ UNCHANGED <<batches, wpc, success, ivars, writer_failed, pvars>>

AttemptPartial(g) ==
    /\ wpc = "running" /\ w[g].pc = "run" /\ LoopCond(w[g])
    /\ \E u \in Unprocessed(Request(w[g])) :
          /\ store' = store \cup (Range(Request(w[g])) \ Range(u))
          /\ w' = [w EXCEPT ![g] = OnUnprocessed(w[g], u)]
    /\ UNCHANGED <<batches, wpc, success, ivars, writer_failed, pvars>>

AttemptError(g) ==
    /\ wpc = "running" /\ w[g].pc = "run" /\ LoopCond(w[g])
    /\ w' = [w EXCEPT ![g] = OnException(w[g])]
    /\ UNCHANGED <<batches, store, wpc, success, ivars, writer_failed, pvars>>

WorkerExit(g) ==
    /\ wpc = "running" /\ w[g].pc = "run" /\ ~LoopCond(w[g])
    /\ w' = [w EXCEPT ![g] = LoopExit(w[g])]
    /\ UNCHANGED <<batches, store, wpc, success, ivars, writer_failed, pvars>>

\* what the importer and the store hold when write_batch_to_dynamo returns False
FailureSeen ==
    <<[feature_index |-> feature_index, calls |-> calls, store |-> store]>>

\* any(results)
AllResults_Any == \E g \in DOMAIN w : w[g].result

\* all(results)
AllResults == \A g \in DOMAIN w : w[g].result

\* results = list(executor.map(...)); return all(results)
Join ==
    /\ wpc = "running"
    /\ \A g \in DOMAIN w : w[g].pc = "done"
    /\ success' = AllResults
    /\ wpc' = "returned"
    /\ writer_failed' = IF AllResults THEN writer_failed ELSE FailureSeen
    /\ UNCHANGED <<batches, w, store, ivars, pvars>>

WriterStep ==
    \/ \E g \in DOMAIN w : StartWorker(g)
    \/ \E g \in DOMAIN w : AttemptAccepted(g)
    \/ \E g \in DOMAIN w : AttemptPartial(g)
    \/ \E g \in DOMAIN w : AttemptError(g)
    \/ \E g \in DOMAIN w : WorkerExit(g)
    \/ Join

\* ------------------------------------------------------------ the writer alone
\* process_geojson is not running
InitImporterIdle ==
    /\ features = <<>> /\ test_mode = FALSE /\ test_limit = 0
    /\ ipc = "done" /\ feature_index = 0 /\ batch = <<>>
    /\ total_processed = 0 /\ total_features = 0 /\ ret = "none"
    /\ calls = 0 /\ handed = 0 /\ writer_failed = <<>>

InitPureIdle == fnIn = <<>> /\ fnOut = <<>>

\* write_batch_to_dynamo called directly with n items
InitWriter ==
    /\ \E n \in 1..MaxItems :
          /\ batches = SplitBatches([i \in 1..n |-> Item(i - 1)])
          /\ w = [g \in 1..Len(SplitBatches([i \in 1..n |-> Item(i - 1)])) |->
                    Queued(SplitBatches([i \in 1..n |-> Item(i - 1)])[g])]
    /\ store = {}
    /\ wpc = "running"
    /\ success = FALSE
    /\ InitImporterIdle
    /\ InitPureIdle

SpecWriter == InitWriter /\ [][WriterStep]_vars

\* ------------------------------------------------------------ claims on the writer
\* group g's records are all in the store
Accepted(g) == Range(w[g].batch) \subseteq store

\* C1: when the worker of a group is done, no request of the group raised and
\* K < MAX_RETRIES of its requests came back with unprocessed items, the worker
\* returned True after exactly K + 1 requests, the last of them accepted whole;
\* a call with that one group returns True.
C1_TransientPartialFailure ==
    \A g \in DOMAIN w :
        (w[g].pc = "done" /\ w[g].errors = 0 /\ w[g].partials < MAX_RETRIES)
        => /\ w[g].result
           /\ w[g].attempts = w[g].partials + 1
           /\ w[g].last = "ok"
           /\ Accepted(g)
           /\ (wpc = "returned" /\ Len(batches) = 1) => success

\* a single group was accepted at its tenth request, after nine partial failures
C1_Witness ==
    /\ wpc = "returned" /\ Len(batches) = 1 /\ success
    /\ w[1].errors = 0 /\ w[1].partials = MAX_RETRIES - 1
    /\ w[1].attempts = MAX_RETRIES

\* C2: when every request of a group came back with unprocessed items, its
\* worker stops after exactly MAX_RETRIES requests and returns False, and
\* write_batch_to_dynamo returns False; no worker ever makes more than
\* MAX_RETRIES requests.
C2_RetryExhaustion ==
    \A g \in DOMAIN w :
        /\ w[g].attempts <= MAX_RETRIES
        /\ (w[g].pc = "done" /\ w[g].attempts >= 1 /\ w[g].partials = w[g].attempts)
           => /\ w[g].attempts = MAX_RETRIES
              /\ ~w[g].result
              /\ ~Accepted(g)
              /\ wpc = "returned" => ~success

\* a call returned False for a group all of whose ten requests failed in part
C2_Witness ==
    /\ wpc = "returned" /\ ~success
    /\ \E g \in DOMAIN w :
          w[g].pc = "done" /\ w[g].partials = MAX_RETRIES /\ w[g].errors = 0

\* C6 as claimed: the request that follows an exception carries all the
\* records of the group.
C6_ResubmitsWholeGroup ==
    [][\A g \in DOMAIN w :
          (w[g].last = "error" /\ w'[g].attempts = w[g].attempts + 1)
          => Request(w[g]) = w[g].batch]_vars

\* C6 amended: an exception leaves the pending items as they are, so the next
\* request carries the items of the request that raised (all the records of the
\* group when no partial failure came before); an exception and a partial
\* failure each add one to the same retry count, which never exceeds MAX_RETRIES.
C6_ResubmitsPending ==
    [][\A g \in DOMAIN w :
          /\ w'[g].errors = w[g].errors + 1
             => /\ Request(w'[g]) = Request(w[g])
                /\ w'[g].retries = w[g].retries + 1
                /\ w[g].partials = 0 => Request(w'[g]) = w[g].batch
          /\ w'[g].partials = w[g].partials + 1
             => w'[g].retries = w[g].retries + 1
          /\ w'[g].retries = w'[g].partials + w'[g].errors
          /\ w'[g].retries <= MAX_RETRIES]_vars

\* a request raised after a partial failure had reduced the pending items, and
\* the worker goes on to the next request
C6_Witness ==
    \E g \in DOMAIN w :
        /\ w[g].pc = "run" /\ w[g].last = "error" /\ LoopCond(w[g])
        /\ w[g].partials >= 1
        /\ Len(Request(w[g])) < Len(w[g].batch)

\* a group's worker has reached its own end: the group accepted whole, or
\* MAX_RETRIES requests made
Terminal(g) == w[g].pc = "done" /\ (Accepted(g) \/ w[g].attempts = MAX_RETRIES)

\* C7: when write_batch_to_dynamo returns, every group has run to its own end,
\* and the call returns True exactly when every group was accepted whole; a
\* group that is exhausted leaves the workers of the other groups as they are.
C7_GroupsIndependent ==
    /\ wpc = "returned"
       => /\ \A g \in DOMAIN w : Terminal(g)
          /\ success <=> \A g \in DOMAIN w : Accepted(g)
    /\ \A g \in DOMAIN w : w[g].pc = "done" => (w[g].result <=> Accepted(g))

\* of two groups the first was exhausted and the second, after a retry of its
\* own, accepted; the call returned False
C7_Witness ==
    /\ wpc = "returned" /\ Len(batches) = 2 /\ ~success
    /\ w[1].attempts = MAX_RETRIES /\ ~w[1].result /\ ~Accepted(1)
    /\ w[2].attempts >= 2 /\ w[2].result /\ Accepted(2)

\* C18: after a request that came back with unprocessed items the next request
\* of the group carries exactly those items, the items of the request less the
\* ones the store took; no request carries an item the store has accepted, and
\* the items of each request are among the items of the request before.
C18_RetryUnprocessedOnly ==
    [][\A g \in DOMAIN w :
          /\ w[g].pc \in {"queued", "run"} => Range(Request(w[g])) \cap store = {}
          /\ w'[g].partials = w[g].partials + 1
             => /\ Range(Request(w'[g])) = Range(Request(w[g])) \ store'
                /\ Request(w'[g]) \in Unprocessed(Request(w[g]))
                /\ w'[g].pc = "run"
          /\ w'[g].attempts = w[g].attempts + 1
             => Range(Request(w'[g])) \subseteq Range(Request(w[g]))]_vars

\* after a partial failure in which the store took an item, the worker is about
\* to request again, with fewer items than its group has and none of them in the
\* store
C18_Witness ==
    \E g \in DOMAIN w :
        /\ w[g].pc = "run" /\ w[g].last = "partial" /\ LoopCond(w[g])
        /\ Len(Request(w[g])) < Len(w[g].batch)
        /\ Range(Request(w[g])) \cap store = {}
        /\ (Range(w[g].batch) \ Range(Request(w[g]))) \subseteq store

\* C20: the delay slept after the r-th failed request of a group is
\* min(2^r * 0.1 s, 1.0 s) after a partial failure and min(2^r * 0.5 s, 5.0 s)
\* after an exception; up to the r the worker has reached each schedule is
\* non-decreasing and within its ceiling (1.0 s and 5.0 s), and the delay
\* after an exception is longer than the delay after a partial failure.
C20_BackoffSchedule ==
    \A g \in DOMAIN w :
        /\ w[g].last = "partial"
           => /\ w[g].attempts \in 1..MAX_RETRIES
              /\ w[g].slept = Min((2 ^ w[g].attempts) * 100, 1000)
        /\ w[g].last = "error"
           => /\ w[g].attempts \in 1..MAX_RETRIES
              /\ w[g].slept = Min((2 ^ w[g].attempts) * 500, 5000)
        /\ \A r \in 1..w[g].retries :
              /\ PartialBackoff(r) <= 1000 /\ ErrorBackoff(r) <= 5000
              /\ ErrorBackoff(r) > PartialBackoff(r)
              /\ r > 1 => /\ PartialBackoff(r - 1) <= PartialBackoff(r)
                          /\ ErrorBackoff(r - 1) <= ErrorBackoff(r)

\* a worker slept 5 s after its tenth request raised, and another slept 0.2 s
\* after its first request failed in part
C20_Witness ==
    /\ \E g \in DOMAIN w :
          /\ w[g].last = "error" /\ w[g].attempts = MAX_RETRIES
          /\ w[g].slept = 5000
    /\ \E g \in DOMAIN w :
          /\ w[g].last = "partial" /\ w[g].attempts = 1 /\ w[g].slept = 200

\* ------------------------------------------------------------ process_geojson
\* first pass: for _ in ijson.items(f, 'features.item'): total_features += 1
CountFeatures ==
    /\ ipc = "counting"
    /\ total_features' = Len(features)
    /\ ipc' = "processing"
    /\ UNCHANGED <<features, test_mode, test_limit, feature_index, batch,
                   total_processed, ret, calls, handed, writer_failed,
                   wvars, pvars>>

\* if test_mode and total_processed >= test_limit: break
LimitReached == test_mode /\ total_processed >= test_limit

\* the batch is written when it holds more than 25 records
BatchFull_Late(b) == Len(b) > BATCH_SIZE

\* if len(batch) >= BATCH_SIZE
BatchFull(b) == Len(b) >= BATCH_SIZE

\* one turn of the loop of the second pass, up to the call of the writer
ProcessFeature ==
    /\ ipc = "processing"
    /\ feature_index < Len(features)
    /\ ~LimitReached
    /\ LET built == BuildItem(features[feature_index + 1], feature_index) IN
         IF built.raised
         THEN \* except Exception: return False
              /\ ipc' = "failed" /\ ret' = "False"
              /\ feature_index' = feature_index + 1
              /\ UNCHANGED <<batch, calls, handed, wvars>>
         ELSE /\ batch' = Append(batch, built.item)
              /\ feature_index' = feature_index + 1
              /\ ret' = ret
              /\ IF BatchFull(batch')
                 THEN /\ CallWriter(batch')
                      /\ ipc' = "writing"
                      /\ calls' = calls + 1
                      /\ handed' = handed + Len(batch')
                      /\ UNCHANGED <<store, success>>
                 ELSE UNCHANGED <<ipc, calls, handed, wvars>>
    /\ UNCHANGED <<features, test_mode, test_limit, total_processed,
                   total_features, writer_failed, pvars>>

\* the break of test mode
StopAtLimit ==
    /\ ipc = "processing"
    /\ feature_index < Len(features)
    /\ LimitReached
    /\ ipc' = "draining"
    /\ feature_index' = feature_index + 1
    /\ UNCHANGED <<features, test_mode, test_limit, batch, total_processed,
                   total_features, ret, calls, handed, writer_failed,
                   wvars, pvars>>

\* the stream is exhausted
EndOfStream ==
    /\ ipc = "processing"
    /\ feature_index = Len(features)
    /\ ipc' = "draining"
    /\ UNCHANGED <<features, test_mode, test_limit, feature_index, batch,
                   total_processed, total_features, ret, calls, handed,
                   writer_failed, wvars, pvars>>

\* the importer goes on before the workers are done
WriterReturned_NoWait == wpc \in {"running", "returned"}

\* write_batch_to_dynamo(batch) is an ordinary call: the importer goes on when
\* list(executor.map(...)) has every result and the function has returned
WriterReturned == wpc = "returned"

\* the loop goes on after a call that returned False
BatchWritten_NoAbort ==
    /\ ipc = "writing" /\ wpc = "returned"
    /\ IF success
       THEN /\ total_processed' = total_processed + Len(batch)
            /\ batch' = <<>>
       ELSE UNCHANGED <<batch, total_processed>>
    /\ ipc' = "processing" /\ ret' = ret
    /\ wpc' = "idle" /\ batches' = <<>> /\ w' = <<>>
    /\ UNCHANGED <<features, test_mode, test_limit, feature_index,
                   total_features, calls, handed, store, success,
                   writer_failed, pvars>>

\* success = write_batch_to_dynamo(batch) has returned, inside the loop
BatchWritten ==
    /\ ipc = "writing" /\ WriterReturned
    /\ IF success
       THEN /\ total_processed' = total_processed + Len(batch)
            /\ batch' = <<>>
            /\ ipc' = "processing"
            /\ ret' = ret
       ELSE /\ ipc' = "failed" /\ ret' = "False"
            /\ UNCHANGED <<batch, total_processed>>
    /\ wpc' = "idle" /\ batches' = <<>> /\ w' = <<>>
    /\ UNCHANGED <<features, test_mode, test_limit, feature_index,
                   total_features, calls, handed, store, success,
                   writer_failed, pvars>>

\* the writer is called for the remaining items even when there are none
Drain_FlushEmpty ==
    /\ ipc = "draining"
    /\ CallWriter(batch)
    /\ ipc' = "flushing"
    /\ calls' = calls + 1
    /\ handed' = handed + Len(batch)
    /\ UNCHANGED <<ret, store, success>>
    /\ UNCHANGED <<features, test_mode, test_limit, feature_index, batch,
                   total_processed, total_features, writer_failed, pvars>>

\* if batch: success = write_batch_to_dynamo(batch) ... else return True
Drain ==
    /\ ipc = "draining"
    /\ IF batch # <<>>
       THEN /\ CallWriter(batch)
            /\ ipc' = "flushing"
            /\ calls' = calls + 1
            /\ handed' = handed + Len(batch)
            /\ UNCHANGED <<ret, store, success>>
       ELSE /\ ipc' = "done" /\ ret' = "True"
            /\ UNCHANGED <<calls, handed, wvars>>
    /\ UNCHANGED <<features, test_mode, test_limit, feature_index, batch,
                   total_processed, total_features, writer_failed, pvars>>

\* the call for the remaining items has returned
FinalWritten ==
    /\ ipc = "flushing" /\ WriterReturned
    /\ IF success
       THEN /\ total_processed' = total_processed + Len(batch)
            /\ ipc' = "done" /\ ret' = "True"
       ELSE /\ ipc' = "failed" /\ ret' = "False"
            /\ UNCHANGED total_processed
    /\ wpc' = "idle" /\ batches' = <<>> /\ w' = <<>>
    /\ UNCHANGED <<features, test_mode, test_limit, feature_index, batch,
                   total_features, calls, handed, store, success,
                   writer_failed, pvars>>

ImporterStep ==
    \/ CountFeatures
    \/ ProcessFeature
    \/ StopAtLimit
    \/ EndOfStream
    \/ BatchWritten
    \/ Drain
    \/ FinalWritten

\* The features unlike Plain that a stream may hold.
SpecialFeatures ==
    {Feature(Num(k), "map", Absent, Str(<<"a">>), Str(<<"b">>), "Polygon", "absent") :
        k \in 0..MaxSuppliedId}
    \cup {Feature(Absent, "map", Num(MaxSuppliedId), Str(<<"a">>), Str(<<"b">>), "Polygon", "absent"),
          Feature(Absent, "map", Absent, Absent, Absent, "Polygon", "absent"),
          Feature(Absent, "map", Absent, Str(<<"a">>), Str(<<"b">>), "Point", "latlng"),
          Feature(Absent, "null", Absent, Absent, Absent, "Polygon", "absent"),
          Feature(Absent, "map", Absent, Str(<<"a">>), Str(<<"b">>), "EmptyRing", "absent"),
          Feature(Absent, "map", Absent, Str(<<"a">>), Str(<<"b">>), "Polygon", "other")}

PlainStreams == {[i \in 1..n |-> Plain] : n \in 0..MaxFeatures}

\* The input streams: n features, all Plain but at most one.
Streams ==
    PlainStreams
    \cup {[i \in 1..n |-> IF i = p THEN s ELSE Plain] :
            n \in 1..MaxSpecialLen, p \in 1..MaxSpecialLen, s \in SpecialFeatures}

\* The limits of test mode: the default, one batch, and one batch and one more.
TestLimits == {2, BATCH_SIZE, BATCH_SIZE + 1}

Init ==
    /\ \/ /\ features \in Streams
          /\ test_mode = FALSE /\ test_limit = 2
       \/ /\ features \in PlainStreams
          /\ test_mode = TRUE /\ test_limit \in TestLimits
    /\ ipc = "counting" /\ feature_index = 0 /\ batch = <<>>
    /\ total_processed = 0 /\ total_features = 0 /\ ret = "none"
    /\ calls = 0 /\ handed = 0 /\ writer_failed = <<>>
    /\ batches = <<>> /\ w = <<>> /\ store = {} /\ wpc = "idle" /\ success = FALSE
    /\ fnIn = <<>> /\ fnOut = <<>>

Next == ImporterStep \/ WriterStep

InitWriterIdle ==
    batches = <<>> /\ w = <<>> /\ store = {} /\ wpc = "idle" /\ success = FALSE

\* ------------------------------------------------------------ claims on the importer
\* the records built so far that were not lost to an exception
Produced == Range(batch) \cup store

\* C3 as claimed: in test mode with limit L on a stream of at least L features,
\* never more than L records are handed to the writer, and exactly L when the
\* run is done.
C3_TestLimitExact ==
    (test_mode /\ Len(features) >= test_limit)
    => /\ handed <= test_limit
       /\ ipc = "done" => handed = test_limit

\* C4 as claimed: a run returns False only after a call of the writer returned
\* False, and a run that no call of the writer failed reads the stream to its
\* end and returns True.
C4_MalformedNeverFatal ==
    /\ ret = "False" => writer_failed # <<>>
    /\ (~test_mode /\ writer_failed = <<>> /\ ipc \in {"done", "failed"})
       => (ret = "True" /\ feature_index = Len(features))

\* C5: once a call of write_batch_to_dynamo has returned False, the importer
\* waits only for that return and is then failed with process_geojson returning
\* False; no feature is read and no call of the writer is made after the one
\* that failed, the batch is not flushed, what the store held then it still
\* holds, and the records of the batches counted as processed are in the store.
C5_AbortOnWriterFailure ==
    writer_failed # <<>>
    => /\ ipc \in {"writing", "flushing", "failed"}
       /\ wpc = "idle" => (ipc = "failed" /\ ret = "False")
       /\ ret # "True"
       /\ feature_index = writer_failed[1].feature_index
       /\ calls = writer_failed[1].calls
       /\ writer_failed[1].store \subseteq store
       /\ \A pos \in 0..(total_processed - 1) : \E it \in store : it.pos = pos

\* a run failed at the second call made in the loop: a feature is left in the
\* stream, the batch still holds its records, and the first batch is in the store
C5_Witness ==
    /\ ipc = "failed" /\ ret = "False" /\ writer_failed # <<>>
    /\ feature_index = 2 * BATCH_SIZE /\ feature_index < Len(features)
    /\ calls = 2 /\ total_processed = BATCH_SIZE /\ Len(batch) = BATCH_SIZE
    /\ \A pos \in 0..(BATCH_SIZE - 1) : \E it \in store : it.pos = pos

\* C9 as claimed: no two records of a run carry the same AhupuaaPK.
C9_PrimaryKeyUnique ==
    \A a \in Produced : \A b \in Produced :
        a.pos # b.pos => a.AhupuaaPK # b.AhupuaaPK

\* ------------------------------------------------------------ the sort key alone
Chars == {" ", "a"}

Strings == UNION {[1..n -> Chars] : n \in 0..MaxNameLen}

\* what the properties of a feature may hold for mokupuni and for moku
NameValues == {Absent, Null} \cup {Str(s) : s \in Strings}

InitKey ==
    /\ fnIn \in [mokupuni : NameValues, moku : NameValues]
    /\ fnOut = <<>>
    /\ InitWriterIdle /\ InitImporterIdle

\* hierarchy_sk = format_hierarchical_key(mokupuni_name, moku_name)
ApplyKey ==
    /\ fnOut = <<>>
    /\ fnOut' = <<hierarchy_sk(fnIn.mokupuni, fnIn.moku)>>
    /\ UNCHANGED <<fnIn, wvars, ivars, writer_failed>>

SpecKey == InitKey /\ [][ApplyKey]_vars

\* ------------------------------------------------------------ claims on the sort key
\* absent, null, empty, or nothing but whitespace
Blank(v) == IF v \in {Absent, Null} THEN TRUE ELSE Strip(v.s) = <<>>

\* where "#MOKU#" stands in a key
MokuAt(key) == CHOOSE i \in 1..Len(key) : key[i] = "#MOKU#"

IslandOf(key) == SubSeq(key, 2, MokuAt(key) - 1)

DistrictOf(key) == SubSeq(key, MokuAt(key) + 1, Len(key))

\* C8 as claimed: in the sort key an island and a district that are absent,
\* null, empty or blank are each replaced by "Unknown"; the key is
\* MOKUPUNI#Unknown#MOKU#Unknown when both are.
C8_SortKeyDefaults ==
    fnOut # <<>>
    => /\ Blank(fnIn.mokupuni) => IslandOf(fnOut[1]) = Unknown
       /\ Blank(fnIn.moku) => DistrictOf(fnOut[1]) = Unknown
       /\ (Blank(fnIn.mokupuni) /\ Blank(fnIn.moku))
          => fnOut[1] = <<"MOKUPUNI#">> \o Unknown \o <<"#MOKU#">> \o Unknown

\* ------------------------------------------------------------ decimation alone
\* The factors of the three detail tiers (0.005, 0.01, 0.03) and others up to 1.
Factors == {5, 10, 30, 250, 500, 501, 600, 999, 1000}

\* a ring of n distinct points, closed (last point = first point) or not
Ring(n, closed) == [i \in 1..n |-> IF closed /\ i = n THEN <<1, 1>> ELSE <<i, i>>]

InitSimplify ==
    /\ \E n \in 0..MaxRing, closed \in BOOLEAN, nested \in BOOLEAN, f \in Factors :
          fnIn = [ring |-> Ring(n, closed), nested |-> nested, factor |-> f,
                  coordinates |-> IF nested THEN <<Ring(n, closed)>>
                                  ELSE Ring(n, closed)]
    /\ fnOut = <<>>
    /\ InitWriterIdle /\ InitImporterIdle

ApplySimplify ==
    /\ fnOut = <<>>
    /\ fnOut' = <<simplify_coordinates(fnIn.coordinates,
                                       IF fnIn.nested THEN 2 ELSE 1, fnIn.factor)>>
    /\ UNCHANGED <<fnIn, wvars, ivars, writer_failed>>

\* simplify_coordinates(simplify_coordinates(coordinates, factor), factor): the
\* function is applied to what it returned, with the same factor
SimplifyAgain ==
    /\ Len(fnOut) = 1
    /\ fnOut' = Append(fnOut, simplify_coordinates(fnOut[1],
                                IF fnIn.nested THEN 2 ELSE 1, fnIn.factor))
    /\ UNCHANGED <<fnIn, wvars, ivars, writer_failed>>

SimplifyStep == ApplySimplify \/ SimplifyAgain

SpecSimplify == InitSimplify /\ [][SimplifyStep]_vars

\* ------------------------------------------------------------ claims on decimation
\* the ring as simplify_coordinates returned it
OutRing == IF fnIn.nested THEN fnOut[1][1] ELSE fnOut[1]

LongRing == Len(fnIn.ring) > SimplifyThreshold

C11_Idempotent == Len(fnOut) = 2 => fnOut[2] = fnOut[1]

GeohashPrecision == 7

\* geohash[:3]
PrefixLen == 3

\* "0000000"
Placeholder == <<"0", "0", "0", "0", "0", "0", "0">>

GeoChars == {"0", "b"}

\* Python's `not x` of None, of the empty string and of the number 0
Falsy(v) == v \in {Absent, Null, Str(<<>>), Num(0)}

\* s[:n] of a string
Prefix(s, n) == SubSeq(s, 1, Min(n, Len(s)))

\* The geohash and its prefix as lines 596-614 set them.  supplied is the
\* feature's 'geohash' (Absent when the key is missing); centroid is "none" (None
\* or an empty mapping), "latlng" (lat and lng that float() and the encoder
\* take) or "bad" (a mapping on which the encoding raises); encoded is what
\* geohash2.encode returns for the centroid.  Slicing a number raises.
GeohashOf(supplied, centroid, encoded) ==
    LET geohash ==
            IF Falsy(supplied) /\ centroid # "none"
            THEN IF centroid = "latlng" THEN Str(encoded) ELSE Str(Placeholder)
            ELSE IF Falsy(supplied) THEN Str(Placeholder)
            ELSE supplied
    IN IF geohash.k # "str"
       THEN [raised |-> TRUE]
       ELSE [raised |-> FALSE, Geohash |-> geohash.s,
             GeohashPrefix |-> Prefix(geohash.s, PrefixLen)]

\* what a feature may carry under 'geohash'
SuppliedGeohashes ==
    {Absent, Null, Num(0), Num(1)}
    \cup {Str(s) : s \in UNION {[1..n -> GeoChars] : n \in 0..MaxGeohashLen}}

\* what the encoder may return: strings of 7 characters
Encodings == {[i \in 1..GeohashPrecision |-> ch] : ch \in GeoChars}

InitGeohash ==
    /\ fnIn \in [supplied : SuppliedGeohashes,
                 centroid : {"none", "latlng", "bad"},
                 encoded : Encodings]
    /\ fnOut = <<>>
    /\ InitWriterIdle /\ InitImporterIdle

ApplyGeohash ==
    /\ fnOut = <<>>
    /\ fnOut' = <<GeohashOf(fnIn.supplied, fnIn.centroid, fnIn.encoded)>>
    /\ UNCHANGED <<fnIn, wvars, ivars, writer_failed>>

SpecGeohash == InitGeohash /\ [][ApplyGeohash]_vars

\* C13 as claimed: every record has a Geohash of exactly 7 characters and a
\* GeohashPrefix of exactly 3 characters, whether the geohash was computed from
\* the centroid, taken from the feature or replaced by the placeholder.
C13_GeohashShape ==
    (fnOut # <<>> /\ ~fnOut[1].raised)
    => /\ Len(fnOut[1].Geohash) = GeohashPrecision
       /\ Len(fnOut[1].GeohashPrefix) = PrefixLen

\* ------------------------------------------------------------ the display priority alone
\* area_value / 10000
AreaDivisor == 10000

\* min(10, max(1, ...))
MinPriority == 1
MaxPriority == 10

\* priority = 5 of the except branch
DefaultPriority == 5

\* A number too large for a float: float() of it is inf or raises OverflowError.
Huge == [k |-> "huge"]

\* int(x / d): the quotient truncated toward zero
Trunc(x, d) == IF x >= 0 THEN x \div d ELSE -((-x) \div d)

\* properties.get('gisacres', properties.get('st_areashape', 0))
AreaOf(props) == Get(props.gisacres, Get(props.st_areashape, Num(0)))

\* The priority as lines 673-684 compute it.  float() of None raises TypeError
\* and of a text that is no number ValueError: both give the default.  int() of
\* an infinite float, and float() of an integer beyond its range, raise
\* OverflowError, which except (ValueError, TypeError) lets through.
DisplayPriority(props) ==
    LET area == AreaOf(props) IN
    IF area.k = "num"
    THEN [raised |-> FALSE,
          priority |-> Min(MaxPriority, Max(MinPriority, Trunc(area.n, AreaDivisor)))]
    ELSE IF area = Huge
    THEN [raised |-> TRUE]
    ELSE [raised |-> FALSE, priority |-> DefaultPriority]

\* areas around each multiple of 10000, below zero and beyond 100000
Areas == {k * AreaDivisor + d : k \in (-2)..MaxPriorityBand, d \in {-1, 0, 1}}

\* what a feature may carry as its area
AreaValues == {Absent, Null, Str(<<"a">>), Huge} \cup {Num(n) : n \in Areas}

\* the two properties 'gisacres' and 'st_areashape' of a feature
AreaProps ==
    {[gisacres |-> v, st_areashape |-> Absent] : v \in AreaValues}
    \cup {[gisacres |-> Absent, st_areashape |-> v] :
             v \in {Null, Huge, Num(0), Num(2 * AreaDivisor)}}
    \cup {[gisacres |-> Num(AreaDivisor), st_areashape |-> Num(2 * AreaDivisor)]}

\* two features, to compare their priorities
InitPriority ==
    /\ fnIn \in [a : AreaProps, b : AreaProps]
    /\ fnOut = <<>>
    /\ InitWriterIdle /\ InitImporterIdle

ApplyPriority ==
    /\ fnOut = <<>>
    /\ fnOut' = <<DisplayPriority(fnIn.a), DisplayPriority(fnIn.b)>>
    /\ UNCHANGED <<fnIn, wvars, ivars, writer_failed>>

SpecPriority == InitPriority /\ [][ApplyPriority]_vars

\* the feature's area is a number a float holds
NumericArea(props) == AreaOf(props).k = "num"

\* C14 as claimed: for every feature the DisplayPriority is an integer in
\* 1..10, also when the area is missing, zero, negative or not numeric, and of
\* two numeric areas a <= b the priority of a is at most the priority of b.
C14_PriorityRange ==
    fnOut # <<>>
    => /\ \A i \in 1..2 :
            /\ ~fnOut[i].raised
            /\ fnOut[i].priority \in MinPriority..MaxPriority
       /\ (NumericArea(fnIn.a) /\ NumericArea(fnIn.b)
           /\ AreaOf(fnIn.a).n <= AreaOf(fnIn.b).n)
          => fnOut[1].priority <= fnOut[2].priority

\* what is left of C14 without the areas beyond the range of a float: the
\* priority is in 1..10 whenever one is computed, and monotone in the area
C14_FinitePriority ==
    fnOut # <<>>
    => /\ \A i \in 1..2 :
            ~fnOut[i].raised => fnOut[i].priority \in MinPriority..MaxPriority
       /\ \A i \in 1..2 :
            fnOut[i].raised <=> AreaOf(IF i = 1 THEN fnIn.a ELSE fnIn.b) = Huge
       /\ (NumericArea(fnIn.a) /\ NumericArea(fnIn.b)
           /\ AreaOf(fnIn.a).n <= AreaOf(fnIn.b).n)
          => fnOut[1].priority <= fnOut[2].priority

\* ------------------------------------------------------------ the properties alone
\* JSON true and false, and a JSON list
Bool(b) == [k |-> "bool", b |-> b]
List(items) == [k |-> "list", items |-> items]

DigitChars == <<"0", "1", "2", "3", "4", "5", "6", "7", "8", "9">>

\* str(n) of an integer: its decimal digits
RECURSIVE str_int(_)
str_int(n) ==
    IF n < 0 THEN <<"-">> \o str_int(-n)
    ELSE IF n < 10 THEN <<DigitChars[n + 1]>>
    ELSE str_int(n \div 10) \o <<DigitChars[(n % 10) + 1]>>

\* str(value) of what isinstance(value, (int, Decimal)) lets in: a bool is an
\* int in Python, and str(True) is "True"
str_number(v) ==
    IF v.k = "bool" THEN (IF v.b THEN <<"T", "r", "u", "e">>
                          ELSE <<"F", "a", "l", "s", "e">>)
    ELSE str_int(v.n)

\* json.dumps of a list of integers
RECURSIVE JoinItems(_)
JoinItems(items) ==
    IF items = <<>> THEN <<>>
    ELSE IF Len(items) = 1 THEN str_int(items[1].n)
    ELSE str_int(items[1].n) \o <<",", " ">> \o JoinItems(Tail(items))

json_dumps(v) == <<"[">> \o JoinItems(v.items) \o <<"]">>

\* isinstance(value, (int, Decimal)): True of a bool as well
IsIntOrDecimal(v) == v.k \in {"num", "bool"}

\* the chain of isinstance tests of lines 810-821, in its order
TagValue(v) ==
    IF v.k = "str" THEN [tag |-> "S", text |-> v.s]
    ELSE IF IsIntOrDecimal(v) THEN [tag |-> "N", text |-> str_number(v)]
    ELSE IF v.k = "bool" THEN [tag |-> "BOOL", b |-> v.b]
    ELSE IF v = Null THEN [tag |-> "NULL", b |-> TRUE]
    ELSE [tag |-> "S", text |-> json_dumps(v)]

\* if properties: ... item['Properties'] = {'M': properties_map}; properties is
\* a function from its keys to their values, and an empty mapping is falsy
PropertiesAttr(properties) ==
    IF DOMAIN properties = {}
    THEN [present |-> FALSE]
    ELSE [present |-> TRUE,
          M |-> [key \in DOMAIN properties |-> TagValue(properties[key])]]

PropKeys == 1..MaxPropKeys

\* what a property may hold
PropValues ==
    {Str(<<>>), Str(<<"a">>), Num(0), Num(12), Bool(TRUE), Bool(FALSE), Null,
     List(<<Num(1), Num(2)>>)}

InitProperties ==
    /\ \E keys \in SUBSET PropKeys : fnIn \in [keys -> PropValues]
    /\ fnOut = <<>>
    /\ InitWriterIdle /\ InitImporterIdle

ApplyProperties ==
    /\ fnOut = <<>>
    /\ fnOut' = <<PropertiesAttr(fnIn)>>
    /\ UNCHANGED <<fnIn, wvars, ivars, writer_failed>>

SpecProperties == InitProperties /\ [][ApplyProperties]_vars

\* the tag that the kind of a value calls for
TagFor(v) ==
    CASE v.k = "str" -> "S"
      [] v.k = "num" -> "N"
      [] v.k = "bool" -> "BOOL"
      [] v.k = "null" -> "NULL"
      [] v.k = "list" -> "S"

\* C15 as claimed: every key of the properties is a key of the record's
\* Properties map, and each value is tagged by its kind: a string as string, a
\* number as numeric, a boolean as boolean, null as null, a nested list as a
\* JSON text; a boolean is never tagged as numeric.
C15_TaggedByKind ==
    fnOut # <<>>
    => IF fnOut[1].present
       THEN /\ DOMAIN fnOut[1].M = DOMAIN fnIn
            /\ \A key \in DOMAIN fnIn :
                 /\ fnOut[1].M[key].tag = TagFor(fnIn[key])
                 /\ fnIn[key].k = "bool" => fnOut[1].M[key].tag # "N"
       ELSE DOMAIN fnIn = {}

\* ------------------------------------------------------------ claims on the importer and the writer together
\* the call of the writer has not returned yet
WriteInProgress == wpc = "running"

\* a worker of the call sleeps between two attempts or is about to request again
WorkerRetrying == \E g \in DOMAIN w : w[g].pc # "done" /\ w[g].retries > 0

\* C16 as claimed: stream production is not blocked by writes; while the write
\* or the backoff of a batch handed to the writer is in progress, the importer
\* can read and build the next feature.
C16_ProductionNotBlocked ==
    (WriteInProgress /\ feature_index < Len(features) /\ ~LimitReached)
    => ENABLED ProcessFeature

\* C16 amended: the writer is called synchronously; from the handoff of a batch
\* until the call has returned the importer reads and builds no feature: its
\* position in the stream, its batch and its place in the code stay as they are
\* while the workers write and sleep.
C16_ImporterWaits ==
    [][WriteInProgress
       => /\ feature_index' = feature_index
          /\ batch' = batch
          /\ ipc' = ipc
          /\ ipc \in {"writing", "flushing"}]_vars

\* features remain in the stream while a worker of the first full batch is
\* retrying, and the importer stands at the call
C16_Witness ==
    /\ WriteInProgress /\ WorkerRetrying
    /\ ipc = "writing" /\ Len(batch) = BATCH_SIZE
    /\ feature_index = BATCH_SIZE /\ feature_index < Len(features)

\* a step that hands the batch to the writer
Handoff == calls' = calls + 1

\* a step that appends a record and thereby fills the batch
ReachesFull == batch' # batch /\ Len(batch') = BATCH_SIZE

\* a step in which a call made inside the loop returns True
HandoffSucceeded == ipc = "writing" /\ ipc' = "processing"

\* C17 as claimed: the batch never holds more than 25 records; it is handed to
\* the writer exactly when it reaches 25 records, and after a successful handoff
\* it is empty before the next feature is read.
C17_HandoffExactlyAtFull ==
    [][/\ Len(batch) <= BATCH_SIZE /\ Len(batch') <= BATCH_SIZE
       /\ Handoff <=> ReachesFull
       /\ HandoffSucceeded => batch' = <<>>]_vars

\* C17 amended: the batch never holds more than 25 records; inside the loop it
\* is handed to the writer exactly when it reaches 25 records, and after a
\* successful handoff it is empty before the next feature is read; the one
\* other handoff is the flush after the end of the stream, of the 1..24
\* records that remain.
C17_BoundedBatch ==
    [][/\ Len(batch) <= BATCH_SIZE /\ Len(batch') <= BATCH_SIZE
       /\ ipc = "processing" => (Handoff <=> ReachesFull)
       /\ (Handoff /\ ipc # "processing")
          => /\ ipc = "draining" /\ batch' = batch
             /\ Len(batch) \in 1..(BATCH_SIZE - 1)
       /\ ReachesFull => Handoff
       /\ HandoffSucceeded => batch' = <<>>]_vars

\* the first full batch was written and the batch is empty again, with
\* features still to read
C17_Witness ==
    /\ ipc = "processing" /\ calls = 1 /\ total_processed = BATCH_SIZE
    /\ batch = <<>> /\ feature_index = BATCH_SIZE
    /\ feature_index < Len(features)

\* no call of the writer has returned False
EveryWriteSucceeded == writer_failed = <<>>

\* process_geojson has returned
RunEnded == ipc \in {"done", "failed"}

\* ceil(n / 25)
BatchesFor(n) == (n + BATCH_SIZE - 1) \div BATCH_SIZE

\* what C19 says of a run: until the stream has ended every call carried 25
\* records; when the run has ended, it returned True after ceil(N/25) calls that
\* carried the N records, each once, and N is the processed count
EndToEnd ==
    /\ ipc \in {"counting", "processing", "writing", "draining"}
       => handed = calls * BATCH_SIZE
    /\ RunEnded
       => /\ ret = "True"
          /\ calls = BatchesFor(Len(features))
          /\ handed = Len(features)
          /\ total_processed = Len(features)
          /\ \A pos \in 0..(Len(features) - 1) :
                Cardinality({it \in store : it.pos = pos}) = 1
          /\ Cardinality(store) = Len(features)

\* C19 as claimed: a non-test run over N features in which every write
\* succeeds makes exactly ceil(N/25) calls of the writer, each of 25 records but
\* possibly the last, hands every feature's record over exactly once, counts N
\* as processed and returns True.
C19_EndToEndBatching == (~test_mode /\ EveryWriteSucceeded) => EndToEnd

\* every feature of the stream can be built into a record
AllBuild == \A i \in 1..Len(features) : ~BuildItem(features[i], i - 1).raised

\* what is left of C19 for the streams of which every feature can be built
C19_WellFormedRun == (~test_mode /\ EveryWriteSucceeded /\ AllBuild) => EndToEnd

\* a call of write_batch_to_dynamo made by process_geojson is under way or has
\* just returned
ImporterCall == ipc \in {"writing", "flushing"}

\* the workers of the call that are in process_batch
Running == {g \in DOMAIN w : w[g].pc = "run"}

\* C21: every call process_geojson makes to write_batch_to_dynamo carries
\* between 1 and 25 records, hence exactly one group; the list is never empty,
\* the pool size min(10, number of groups) is 1, and no two groups are ever
\* written at the same time during an import.
C21_OneGroupPerCall ==
    /\ ImporterCall
       => /\ Len(batch) \in 1..BATCH_SIZE
          /\ Len(batches) = 1
          /\ batches[1] = batch
          /\ max_workers = 1
          /\ DOMAIN w = {1}
    /\ Cardinality(Running) <= 1
    /\ ~ImporterCall => (batches = <<>> /\ w = <<>>)

\* the flush of a single remaining record is under way, its one worker between
\* two requests
C21_Witness ==
    /\ ipc = "flushing" /\ wpc = "running"
    /\ Len(batch) = 1 /\ Len(batches) = 1 /\ max_workers = 1
    /\ Running = {1} /\ w[1].retries > 0

\* ------------------------------------------------------------ one worker to its end
\* write_batch_to_dynamo called with the items of one group
InitWorker ==
    /\ \E n \in 1..MaxWorkerItems :
          /\ batches = SplitBatches([i \in 1..n |-> Item(i - 1)])
          /\ w = [g \in 1..Len(SplitBatches([i \in 1..n |-> Item(i - 1)])) |->
                    Queued(SplitBatches([i \in 1..n |-> Item(i - 1)])[g])]
    /\ store = {} /\ wpc = "running" /\ success = FALSE
    /\ InitImporterIdle /\ InitPureIdle

\* The pool runs its threads, batch_write_item returns or raises and
\* time.sleep ends: a step of the call that can be taken is taken in the end.
SpecWorker == InitWorker /\ [][WriterStep]_vars /\ WF_vars(WriterStep)

\* C22: a group's worker always terminates; under every interleaving of
\* partial failures and exceptions, which advance the one retry counter, it
\* makes at most MAX_RETRIES requests; it returns True only when a request left
\* no unprocessed items (or its group was empty), and False otherwise.
C22_WorkerTerminates ==
    /\ [](\A g \in DOMAIN w :
             /\ w[g].attempts <= MAX_RETRIES
             /\ w[g].retries = w[g].partials + w[g].errors
             /\ w[g].pc = "done"
                => (w[g].result <=> (w[g].last = "ok" \/ w[g].batch = <<>>)))
    /\ <>(\A g \in DOMAIN w : w[g].pc = "done")

\* a worker returned False after ten requests, some answered with unprocessed
\* items and some with an exception
C22_Witness ==
    \E g \in DOMAIN w :
        /\ w[g].pc = "done" /\ ~w[g].result
        /\ w[g].attempts = MAX_RETRIES
        /\ w[g].partials >= 1 /\ w[g].errors >= 1

Spec == Init /\ [][Next]_vars

====
